---- MODULE Spec2Model ----
(***************************************************************************)
(* The LLM call orchestration core of app/utils/llm_handler.py:            *)
(* RateLimiter, CallQueue, LLMCallHandler with its scheduling loop, and    *)
(* BatchCallHandler.                                                       *)
(*                                                                         *)
(* The handler runs on one asyncio event loop.  A coroutine is only        *)
(* suspended at an await that really blocks (asyncio.sleep, the provider   *)
(* call, awaiting an unfinished task); the asyncio.Lock objects are never  *)
(* held across such a point, so they are never contended.  Each action     *)
(* below is therefore the code that runs between two suspension points.    *)
(***************************************************************************)
EXTENDS Integers, Sequences, FiniteSets, TLC

\* ------------------------------------------------------------------ bounds
MaxCalls == 2
MaxClock == 1
MaxUser == 1
MaxCap == 2
MaxEnqueues == 3
MaxRate == 2
MaxWindows == 2
MaxRecords == 3
MaxBatch == 2
MaxWait == 1
MaxPolls == 2
MaxChars == 8

\* ------------------------------------------------------- program constants
DefaultMaxConcurrent == 5
DefaultCallsPerMinute == 60
DefaultCallsPerHour == 1000
DefaultMaxRetries == 3
DefaultTimeoutSeconds == 300
MinuteWindow == 60000
HourWindow == 3600000
PollMs == 500
TokenChars == 4
DefaultHours == 24
TokenCost == 3

\* CallStatus
QUEUED == "queued"
PROCESSING == "processing"
COMPLETED == "completed"
FAILED == "failed"
TIMEOUT == "timeout"
CANCELLED == "cancelled"

\* CallPriority, and the order dequeue scans the tiers in
PriorityOrder == <<"critical", "high", "normal", "low">>
CallPriority == {PriorityOrder[i] : i \in 1..4}
Rank(p) == CHOOSE i \in 1..4 : PriorityOrder[i] = p

\* Optional[str] fields hold Null until set
Null == "null"
\* None in a field that holds a number
NoNumber == -1
\* _make_api_call: the response is chosen by the prompt
Prompts == <<"generate", "evaluate", "iterate">>
ResultText(prompt) ==
    CASE prompt = "generate" ->
             "Generated response with multiple ideas and detailed analysis."
      [] prompt = "evaluate" ->
             "Evaluation response with scores, strengths, and recommendations."
      [] prompt = "iterate" ->
             "Iteration response with improved version and changes made."
\* len() of the prompts and of the responses
Chars(s) ==
    CASE s \in {"generate", "evaluate"} -> 8
      [] s = "iterate" -> 7
      [] s = ResultText("generate") -> 61
      [] s = ResultText("evaluate") -> 64
      [] s = ResultText("iterate") -> 58
TimeoutMessage == "Request timed out"
ErrorText == "error"

VARIABLES
    calls,                \* the LLMCall objects ever built, by allocation order
    call_history,         \* LLMCallHandler.call_history: id -> object
    queues,               \* CallQueue.queues: tier -> list of objects
    active_calls,         \* CallQueue.active_calls (its key set)
    max_concurrent_calls, \* CallQueue.max_concurrent_calls
    minute_calls,         \* RateLimiter.minute_calls
    hour_calls,           \* RateLimiter.hour_calls
    calls_per_minute,     \* RateLimiter.calls_per_minute
    calls_per_hour,       \* RateLimiter.calls_per_hour
    processing_task,      \* None, or where the loop task is suspended
    cancel_requested,     \* Task.cancel() was called and is not yet delivered
    current,              \* the call _process_single_call is running for
    shutdown,             \* LLMCallHandler._shutdown
    stop_pc,              \* a stop_processing caller: idle or awaiting the task
    clock,                \* wall clock in milliseconds
    ret,                  \* what the operation of the last step returned
    waits,                \* the wait_for_call coroutines of a wait_for_batch
    arrival,              \* history: pending objects in order of enqueue
    behind,               \* history: same-tier objects the current call left behind
    invocations,          \* history: provider invocations started, per object
    failures,             \* history: provider invocations that raised, per object
    cancel_true,          \* history: the calls cancel_call has returned True for
    recorded,             \* history: the time of every record_call
    loops,                \* history: the _process_calls tasks that are live
    completions           \* history: complete_call runs for the id of the
                          \* dispatch in progress, since its dequeue

vars == <<calls, call_history, queues, active_calls, max_concurrent_calls,
          minute_calls, hour_calls, calls_per_minute, calls_per_hour,
          processing_task, cancel_requested, current, shutdown, stop_pc, clock,
          ret, waits, arrival, behind, invocations, failures, cancel_true,
          recorded, loops, completions>>

config == <<max_concurrent_calls, calls_per_minute, calls_per_hour>>
limiter == <<minute_calls, hour_calls>>
history == <<arrival, behind, invocations, failures, cancel_true>>

NoRet == [op |-> "none", arg |-> 0, val |-> 0]
Handles == 1..Len(calls)
Min(S) == CHOOSE x \in S : \A y \in S : x <= y
SeqToSet(s) == {s[i] : i \in 1..Len(s)}
Without(s, h) == SelectSeq(s, LAMBDA x : x # h)
PutNowhere(f, k, v) == f
Put(f, k, v) == [x \in DOMAIN f \cup {k} |-> IF x = k THEN v ELSE f[x]]
Pending == UNION {SeqToSet(queues[p]) : p \in CallPriority}

\* ---------------------------------------------------------------- LLMCall
\* response_time_ms, a wall-clock measurement that nothing reads but the
\* average of get_user_call_stats, is left out
\* settings: the model, the temperature in tenths (0.7) and max_tokens
openai_model == "gpt-4"
openai_temperature == 7
settings_max_tokens == 2000

\* Python's "v or d" on an optional string and on an optional number: the
\* default replaces every value that is false, not None alone
OrString(v, d) == IF v = Null \/ v = "" THEN d ELSE v
OrNumber(v, d) == IF v = NoNumber \/ v = 0 THEN d ELSE v

\* the keyword arguments of a submit that leaves all three out
Omitted == [model |-> Null, temperature |-> NoNumber, max_tokens |-> NoNumber]

LLMCall(id, prompt, model, temperature, max_tokens, priority, user_id, created_at) ==
    [id |-> id, prompt |-> prompt, model |-> model,
     temperature |-> temperature, max_tokens |-> max_tokens,
     priority |-> priority, user_id |-> user_id,
     created_at |-> created_at,
     timeout_seconds |-> DefaultTimeoutSeconds,
     retry_count |-> 0, max_retries |-> DefaultMaxRetries,
     status |-> QUEUED, result |-> Null, error |-> Null,
     tokens_used |-> NoNumber, cost |-> NoNumber]

\* ------------------------------------------------------------ RateLimiter
PruneInclusive(log, now, window) ==
    SelectSeq(log, LAMBDA t : t >= now - window)
Prune(log, now, window) == SelectSeq(log, LAMBDA t : t > now - window)

CanMakeCallMinuteOnly(minute, hour, now, per_minute, per_hour) ==
    LET m == Prune(minute, now, MinuteWindow)
        h == Prune(hour, now, HourWindow)
    IN  [ok |-> Len(m) < per_minute, minute |-> m, hour |-> h]

CanMakeCallOffByOne(minute, hour, now, per_minute, per_hour) ==
    LET m == Prune(minute, now, MinuteWindow)
        h == Prune(hour, now, HourWindow)
    IN  [ok |-> Len(m) <= per_minute /\ Len(h) <= per_hour,
         minute |-> m, hour |-> h]

can_make_call(minute, hour, now, per_minute, per_hour) ==
    LET m == Prune(minute, now, MinuteWindow)
        h == Prune(hour, now, HourWindow)
    IN  [ok |-> Len(m) < per_minute /\ Len(h) < per_hour,
         minute |-> m, hour |-> h]

RecordCallTwice(log, now) == Append(Append(log, now), now)
record_call(log, now) == Append(log, now)

\* -------------------------------------------------------------- CallQueue
EnqueueAtHead(qs, cs, h) == [qs EXCEPT ![cs[h].priority] = <<h>> \o @]
enqueue(qs, cs, h) == [qs EXCEPT ![cs[h].priority] = Append(@, h)]

HasCapacityOffByOne(active, cap) == Cardinality(active) <= cap
HasCapacity(active, cap) == Cardinality(active) < cap

NextTierLowestFirst(qs) ==
    LET ne == {i \in 1..4 : qs[PriorityOrder[i]] # <<>>}
    IN  IF ne = {} THEN Null ELSE PriorityOrder[CHOOSE i \in ne : \A j \in ne : j <= i]

NextTier(qs) ==
    LET ne == {i \in 1..4 : qs[PriorityOrder[i]] # <<>>}
    IN  IF ne = {} THEN Null ELSE PriorityOrder[Min(ne)]

PopKeeping(q) == [call |-> Head(q), rest |-> q]
Pop(q) == [call |-> Head(q), rest |-> Tail(q)]

dequeue(qs, active, cs, cap) ==
    LET none == [call |-> 0, queues |-> qs, active |-> active, calls |-> cs]
        p == NextTier(qs)
    IN  IF ~HasCapacity(active, cap) THEN none
        ELSE IF p = Null THEN none
        ELSE LET top == Pop(qs[p])
             IN  [call |-> top.call,
                  queues |-> [qs EXCEPT ![p] = top.rest],
                  active |-> active \cup {cs[top.call].id},
                  calls |-> [cs EXCEPT ![top.call].status = PROCESSING]]

CompleteCallNothing(active, id) == active
complete_call(active, id) == active \ {id}

\* history: what a dequeue that returned h leaves behind in h's own tier
LeftBehind(qs, cs, h) ==
    IF h = 0 THEN {} ELSE SeqToSet(qs[cs[h].priority]) \ {h}

TypeOK ==
    /\ Len(calls) <= MaxCalls \/ Len(calls) <= MaxEnqueues
    /\ \A h \in Handles : calls[h].status \in {QUEUED, PROCESSING, COMPLETED, FAILED, TIMEOUT, CANCELLED}
    /\ Len(invocations) = Len(calls) /\ Len(failures) = Len(calls)
    /\ clock \in Nat
    /\ processing_task \in {"None", "sleep", "provider", "run", "done"}
    /\ shutdown \in BOOLEAN
    /\ cancel_requested \in BOOLEAN

Init ==
    /\ calls = <<>>
    /\ call_history = <<>>
    /\ queues = [p \in CallPriority |-> <<>>]
    /\ active_calls = {}
    /\ max_concurrent_calls = DefaultMaxConcurrent
    /\ minute_calls = <<>>
    /\ hour_calls = <<>>
    /\ calls_per_minute = DefaultCallsPerMinute
    /\ calls_per_hour = DefaultCallsPerHour
    /\ processing_task = "None"
    /\ cancel_requested = FALSE
    /\ current = 0
    /\ shutdown = FALSE
    /\ stop_pc = "idle"
    /\ clock = 0
    /\ ret = NoRet
    /\ waits = <<>>
    /\ arrival = <<>>
    /\ behind = {}
    /\ invocations = <<>>
    /\ failures = <<>>
    /\ cancel_true = {}
    /\ recorded = <<>>
    /\ loops = 0
    /\ completions = 0

\* --------------------------------------------------------- LLMCallHandler
Users == 1..MaxUser
\* the tiers the callers of this model submit to
SubmitPriorities == {"critical", "normal"}
CallId(now, user_id) == <<now, user_id>>
UnknownId == <<0, 0>>
Returned(op, arg, val) == [op |-> op, arg |-> arg, val |-> val]
OnCpu == processing_task = "run"

\* start_processing: a task is created when there is none or it is done
NeedsTaskAlways(task) == TRUE
NeedsTask(task) == task \in {"None", "done"}

StartProcessingNever(task) == task
start_processing(task) == IF NeedsTask(task) THEN "sleep" ELSE task

\* the live _process_calls tasks after start_processing
Started(task, n) == IF NeedsTask(task) THEN n + 1 ELSE n

GetCallStatusOrQueued(hist, cs, call_id) ==
    IF call_id \in DOMAIN hist THEN cs[hist[call_id]].status ELSE QUEUED
get_call_status(hist, cs, call_id) ==
    IF call_id \in DOMAIN hist THEN cs[hist[call_id]].status ELSE Null

get_call_result(hist, cs, call_id) ==
    IF call_id \in DOMAIN hist THEN cs[hist[call_id]] ELSE Null

\* a wait_for_call coroutine: created, suspended in its sleep, or returned
Wait(call_id, timeout_seconds) ==
    [id |-> call_id, timeout_seconds |-> timeout_seconds, pc |-> "new",
     start |-> 0, wake |-> 0,
     result |-> [exc |-> FALSE, val |-> Null]]

WaitExpiredLate(now, start, timeout_seconds) ==
    now - start > timeout_seconds * 1000
WaitExpired(now, start, timeout_seconds) ==
    ~(now - start < timeout_seconds * 1000)

Finish(w, v) ==
    [w EXCEPT !.pc = "done", !.result = [exc |-> FALSE, val |-> v]]

\* one pass of the while loop of wait_for_call, up to its sleep or return
wait_for_call(w, now, hist, cs) ==
    IF WaitExpired(now, w.start, w.timeout_seconds) THEN Finish(w, Null)
    ELSE IF w.id \notin DOMAIN hist THEN Finish(w, Null)
    ELSE LET call == cs[hist[w.id]]
         IN  IF call.status = COMPLETED THEN Finish(w, call.result)
             ELSE IF call.status \in {FAILED, TIMEOUT, CANCELLED}
             THEN Finish(w, Null)
             ELSE [w EXCEPT !.pc = "sleep", !.wake = now + PollMs]

\* wait_for_batch turns the exceptions gather collected into None
NoneIfException(r) == IF r.exc THEN Null ELSE r.val

\* the prompt of the h-th call the callers of this model submit
PromptOf(h) == Prompts[((h - 1) % Len(Prompts)) + 1]

\* submit_call on the handler's collections: build the call, enqueue it and
\* record it under its id
Submit(st, now, user_id, model, temperature, max_tokens, priority) ==
    LET call_id == CallId(now, user_id)
        h == Len(st.calls) + 1
        cs == Append(st.calls,
                     LLMCall(call_id, PromptOf(h),
                             OrString(model, openai_model),
                             OrNumber(temperature, openai_temperature),
                             OrNumber(max_tokens, settings_max_tokens),
                             priority, user_id, now))
    IN  [calls |-> cs,
         queues |-> enqueue(st.queues, cs, h),
         call_history |-> Put(st.call_history, call_id, h),
         ids |-> Append(st.ids, call_id)]

\* the loop of submit_batch: n submit_call in a row, for call
\* specifications that hold a prompt and none of the three keys
RECURSIVE SubmitBatch(_, _, _, _, _)
SubmitBatch(st, now, user_id, priority, n) ==
    IF n = 0 THEN st
    ELSE Submit(SubmitBatch(st, now, user_id, priority, n - 1),
                now, user_id, Omitted.model, Omitted.temperature,
                Omitted.max_tokens, priority)

Collections ==
    [calls |-> calls, queues |-> queues, call_history |-> call_history,
     ids |-> <<>>]

CancellableUnlessCancelled(status) == status # CANCELLED
Cancellable(status) == status \in {QUEUED, PROCESSING}

\* _estimate_tokens, of the len() of the prompt and of the response: the
\* float quotient, truncated by int(); the lengths are never negative
estimate_tokens(prompt_chars, response_chars) ==
    (prompt_chars + response_chars) \div TokenChars

\* _estimate_cost, in hundred-thousandths of a dollar
estimate_cost(tokens) == tokens * TokenCost

OnSuccessNoResult(c) == [c EXCEPT !.status = COMPLETED]
OnSuccess(c) ==
    LET result == ResultText(c.prompt)
        tokens == estimate_tokens(Chars(c.prompt), Chars(result))
    IN  [c EXCEPT !.status = COMPLETED, !.result = result,
                  !.tokens_used = tokens, !.cost = estimate_cost(tokens)]

OnTimeoutRetried(c) ==
    IF c.retry_count < c.max_retries
    THEN [c EXCEPT !.status = QUEUED, !.error = TimeoutMessage,
                   !.retry_count = @ + 1]
    ELSE [c EXCEPT !.status = TIMEOUT, !.error = TimeoutMessage]
OnTimeout(c) == [c EXCEPT !.status = TIMEOUT, !.error = TimeoutMessage]

ShouldRetryOffByOne(c) == c.retry_count <= c.max_retries
ShouldRetry(c) == c.retry_count < c.max_retries

OnFailureNoRetry(c) == [c EXCEPT !.status = FAILED, !.error = ErrorText]
OnFailure(c) ==
    LET failed == [c EXCEPT !.status = FAILED, !.error = ErrorText]
    IN  IF ShouldRetry(failed)
        THEN [failed EXCEPT !.retry_count = @ + 1, !.status = QUEUED]
        ELSE failed

Outcomes == {"ok", "timeout", "error"}
Handle(c, outcome) ==
    CASE outcome = "ok" -> OnSuccess(c)
      [] outcome = "timeout" -> OnTimeout(c)
      [] outcome = "error" -> OnFailure(c)

\* the wall clock advances
Tick ==
    /\ clock < MaxClock
    /\ clock' = clock + 1
    /\ ret' = NoRet
    /\ UNCHANGED <<loops, completions, recorded, waits,
                   calls, call_history, queues, active_calls, config, limiter,
                   processing_task, cancel_requested, current, shutdown,
                   stop_pc, history>>

\* the wall clock advances by d milliseconds; a coroutine whose sleep is
\* over runs before more time passes
Elapse(d, horizon) ==
    /\ d > 0
    /\ clock + d <= horizon
    /\ \A i \in 1..Len(waits) :
           /\ waits[i].pc # "new"
           /\ waits[i].pc = "sleep" => clock < waits[i].wake
    /\ clock' = clock + d
    /\ ret' = NoRet
    /\ UNCHANGED <<loops, completions, recorded, waits,
                   calls, call_history, queues, active_calls, config,
                   limiter, processing_task, cancel_requested, current,
                   shutdown, stop_pc, history>>

submit_call(user_id, model, temperature, max_tokens, priority) ==
    /\ ~OnCpu
    /\ Len(calls) < MaxCalls
    /\ LET st == Submit(Collections, clock, user_id, model, temperature,
                        max_tokens, priority)
       IN  /\ calls' = st.calls
           /\ queues' = st.queues
           /\ call_history' = st.call_history
           /\ processing_task' = start_processing(processing_task)
           /\ loops' = Started(processing_task, loops)
           /\ ret' = NoRet
           /\ arrival' = Append(arrival, Len(st.calls))
           /\ invocations' = Append(invocations, 0)
           /\ failures' = Append(failures, 0)
    /\ UNCHANGED <<completions, recorded, waits,
                   active_calls, config, limiter, cancel_requested, current,
                   shutdown, stop_pc, clock, behind, cancel_true>>

\* BatchCallHandler.submit_batch of n call specifications, at the default
\* batch priority; no submit_call in it suspends
submit_batch(user_id, n) ==
    /\ ~OnCpu
    /\ Len(calls) + n <= MaxCalls
    /\ LET st == SubmitBatch(Collections, clock, user_id, "normal", n)
           fresh == [i \in 1..n |-> Len(calls) + i]
       IN  /\ calls' = st.calls
           /\ queues' = st.queues
           /\ call_history' = st.call_history
           /\ processing_task' =
                  IF n = 0 THEN processing_task
                  ELSE start_processing(processing_task)
           /\ loops' = IF n = 0 THEN loops
                        ELSE Started(processing_task, loops)
           /\ ret' = Returned("submit_batch", user_id, st.ids)
           /\ arrival' = arrival \o fresh
           /\ invocations' = invocations \o [i \in 1..n |-> 0]
           /\ failures' = failures \o [i \in 1..n |-> 0]
    /\ UNCHANGED <<completions, recorded, waits,
                   active_calls, config, limiter, cancel_requested,
                   current, shutdown, stop_pc, clock, behind, cancel_true>>

StartProcessing ==
    /\ ~OnCpu
    /\ processing_task' = start_processing(processing_task)
    /\ loops' = Started(processing_task, loops)
    /\ ret' = NoRet
    /\ UNCHANGED <<completions, recorded, waits,
                   calls, call_history, queues, active_calls, config, limiter,
                   cancel_requested, current, shutdown, stop_pc, clock, history>>

StopWithoutAwait ==
    /\ ~OnCpu
    /\ stop_pc = "idle"
    /\ shutdown' = TRUE
    /\ cancel_requested' = (processing_task \in {"sleep", "provider"})
    /\ ret' = NoRet
    /\ UNCHANGED <<loops, completions, recorded, waits,
                   calls, call_history, queues, active_calls, config, limiter,
                   processing_task, current, clock, history, stop_pc>>

\* stop_processing up to its await of the task
stop_processing ==
    /\ ~OnCpu
    /\ stop_pc = "idle"
    /\ shutdown' = TRUE
    /\ IF processing_task \in {"sleep", "provider"}
       THEN cancel_requested' = TRUE /\ stop_pc' = "awaiting"
       ELSE UNCHANGED <<cancel_requested, stop_pc>>
    /\ ret' = NoRet
    /\ UNCHANGED <<loops, completions, recorded, waits,
                   calls, call_history, queues, active_calls, config, limiter,
                   processing_task, current, clock, history>>

\* stop_processing resumes once the task it awaits has finished
StopReturn ==
    /\ ~OnCpu
    /\ stop_pc = "wake"
    /\ stop_pc' = "idle"
    /\ ret' = NoRet
    /\ UNCHANGED <<loops, completions, recorded, waits,
                   calls, call_history, queues, active_calls, config, limiter,
                   processing_task, cancel_requested, current, shutdown, clock,
                   history>>

cancel_call(call_id) ==
    /\ ~OnCpu
    /\ LET known == call_id \in DOMAIN call_history
           h == call_history[call_id]
           hit == known /\ Cancellable(calls[h].status)
       IN  /\ calls' = IF hit THEN [calls EXCEPT ![h].status = CANCELLED]
                       ELSE calls
           /\ active_calls' = IF hit THEN complete_call(active_calls, call_id)
                              ELSE active_calls
           /\ cancel_true' = IF hit THEN cancel_true \cup {h}
                             ELSE cancel_true
           /\ completions' =
                  IF hit /\ processing_task = "provider"
                         /\ call_id = calls[current].id
                  THEN completions + 1 ELSE completions
           /\ ret' = Returned("cancel_call", call_id, hit)
    /\ UNCHANGED <<loops, recorded, waits,
                   call_history, queues, config, limiter, processing_task,
                   cancel_requested, current, shutdown, stop_pc, clock, arrival,
                   behind, invocations, failures>>

GetCallStatus(call_id) ==
    /\ ~OnCpu
    /\ ret' = Returned("get_call_status", call_id,
                       get_call_status(call_history, calls, call_id))
    /\ UNCHANGED <<loops, completions, recorded, waits,
                   calls, call_history, queues, active_calls, config, limiter,
                   processing_task, cancel_requested, current, shutdown,
                   stop_pc, clock, history>>

GetCallResult(call_id) ==
    /\ ~OnCpu
    /\ ret' = Returned("get_call_result", call_id,
                       get_call_result(call_history, calls, call_id))
    /\ UNCHANGED <<loops, completions, recorded, waits,
                   calls, call_history, queues, active_calls, config, limiter,
                   processing_task, cancel_requested, current, shutdown,
                   stop_pc, clock, history>>

\* sum(f[x] for x in S)
RECURSIVE Sum(_, _)
Sum(f, S) ==
    IF S = {} THEN 0
    ELSE LET x == CHOOSE y \in S : TRUE
         IN  f[x] + Sum(f, S \ {x})

\* v or 0
OrZero(v) == IF v = NoNumber THEN 0 ELSE v

\* a quotient of two lengths, kept as numerator and denominator
Ratio(n, d) == <<n, d>>

\* call_history.values() created at or after the cutoff
Since(hist, cs, cutoff) ==
    {h \in {hist[id] : id \in DOMAIN hist} : cs[h].created_at >= cutoff}

\* CallQueue.get_queue_stats
get_queue_stats(qs, active, cap) ==
    [active_calls |-> Cardinality(active),
     queued_calls |-> [p \in CallPriority |-> Len(qs[p])],
     total_queued |-> Sum([p \in CallPriority |-> Len(qs[p])], CallPriority),
     capacity_used |-> Ratio(Cardinality(active), cap)]

\* get_user_call_stats, without its average of the response times
get_user_call_stats(hist, cs, user_id, hours, now) ==
    LET user_calls == {h \in Since(hist, cs, now - hours * HourWindow) :
                          cs[h].user_id = user_id}
    IN  [total_calls |-> Cardinality(user_calls),
         successful_calls |->
             Cardinality({h \in user_calls : cs[h].status = COMPLETED}),
         failed_calls |->
             Cardinality({h \in user_calls : cs[h].status = FAILED}),
         total_tokens_used |->
             Sum([h \in user_calls |-> OrZero(cs[h].tokens_used)], user_calls),
         total_cost |->
             Sum([h \in user_calls |-> OrZero(cs[h].cost)], user_calls)]

\* get_system_stats
get_system_stats(hist, cs, qs, active, cap, now) ==
    LET recent_calls == Since(hist, cs, now - HourWindow)
        completed == {h \in recent_calls : cs[h].status = COMPLETED}
    IN  [queue_stats |-> get_queue_stats(qs, active, cap),
         recent_hour_calls |-> Cardinality(recent_calls),
         total_historical_calls |-> Cardinality(DOMAIN hist),
         success_rate |->
             IF recent_calls = {} THEN Ratio(0, 1)
             ELSE Ratio(Cardinality(completed), Cardinality(recent_calls))]

GetQueueStatsDraining ==
    /\ ~OnCpu
    /\ ret' = Returned("get_queue_stats", 0,
                       get_queue_stats(queues, active_calls,
                                       max_concurrent_calls))
    /\ queues' = [p \in CallPriority |-> <<>>]
    /\ UNCHANGED <<loops, completions, recorded, waits,
                   calls, call_history, active_calls, config, limiter,
                   processing_task, cancel_requested, current, shutdown,
                   stop_pc, clock, history>>

GetQueueStats ==
    /\ ~OnCpu
    /\ ret' = Returned("get_queue_stats", 0,
                       get_queue_stats(queues, active_calls,
                                       max_concurrent_calls))
    /\ UNCHANGED <<loops, completions, recorded, waits,
                   calls, call_history, queues, active_calls, config, limiter,
                   processing_task, cancel_requested, current, shutdown,
                   stop_pc, clock, history>>

GetUserCallStats(user_id, hours) ==
    /\ ~OnCpu
    /\ ret' = Returned("get_user_call_stats", <<user_id, hours>>,
                       get_user_call_stats(call_history, calls, user_id,
                                           hours, clock))
    /\ UNCHANGED <<loops, completions, recorded, waits,
                   calls, call_history, queues, active_calls, config, limiter,
                   processing_task, cancel_requested, current, shutdown,
                   stop_pc, clock, history>>

GetSystemStats ==
    /\ ~OnCpu
    /\ ret' = Returned("get_system_stats", 0,
                       get_system_stats(call_history, calls, queues,
                                        active_calls, max_concurrent_calls,
                                        clock))
    /\ UNCHANGED <<loops, completions, recorded, waits,
                   calls, call_history, queues, active_calls, config, limiter,
                   processing_task, cancel_requested, current, shutdown,
                   stop_pc, clock, history>>

\* a caller calls wait_for_call: the coroutine is created
WaitForCall(call_id, timeout_seconds) ==
    /\ ~OnCpu
    /\ waits = <<>>
    /\ waits' = <<Wait(call_id, timeout_seconds)>>
    /\ ret' = NoRet
    /\ UNCHANGED <<loops, completions, recorded,
                   calls, call_history, queues, active_calls, config, limiter,
                   processing_task, cancel_requested, current, shutdown,
                   stop_pc, clock, history>>

\* the caller of wait_for_call gets what the coroutine returned
WaitReturn ==
    /\ ~OnCpu
    /\ Len(waits) = 1
    /\ waits[1].pc = "done"
    /\ ret' = Returned("wait_for_call", waits[1].id, waits[1].result.val)
    /\ waits' = <<>>
    /\ UNCHANGED <<loops, completions, recorded,
                   calls, call_history, queues, active_calls, config, limiter,
                   processing_task, cancel_requested, current, shutdown,
                   stop_pc, clock, history>>

\* wait_for_batch up to its await of gather: one wait_for_call coroutine
\* per id, none of them started yet; gather of nothing is done at once
wait_for_batch(call_ids, timeout_seconds) ==
    /\ ~OnCpu
    /\ waits = <<>>
    /\ waits' = [i \in 1..Len(call_ids) |-> Wait(call_ids[i], timeout_seconds)]
    /\ ret' = IF call_ids = <<>>
              THEN Returned("wait_for_batch", call_ids, <<>>)
              ELSE NoRet
    /\ UNCHANGED <<loops, completions, recorded,
                   calls, call_history, queues, active_calls, config, limiter,
                   processing_task, cancel_requested, current, shutdown,
                   stop_pc, clock, history>>

\* the i-th wait_for_call coroutine runs: from its start, or from the end of
\* its sleep, to its next sleep or its return
WaitStep(i) ==
    /\ ~OnCpu
    /\ \/ waits[i].pc = "new"
       \/ waits[i].pc = "sleep" /\ clock >= waits[i].wake
    /\ LET w == IF waits[i].pc = "new"
                THEN [waits[i] EXCEPT !.start = clock]
                ELSE waits[i]
       IN  waits' = [waits EXCEPT
                        ![i] = wait_for_call(w, clock, call_history, calls)]
    /\ ret' = NoRet
    /\ UNCHANGED <<loops, completions, recorded,
                   calls, call_history, queues, active_calls, config, limiter,
                   processing_task, cancel_requested, current, shutdown,
                   stop_pc, clock, history>>

\* gather is done: wait_for_batch builds its list and returns
BatchReturn ==
    /\ ~OnCpu
    /\ waits # <<>>
    /\ \A i \in 1..Len(waits) : waits[i].pc = "done"
    /\ ret' = Returned("wait_for_batch",
                       [i \in 1..Len(waits) |-> waits[i].id],
                       [i \in 1..Len(waits) |-> NoneIfException(waits[i].result)])
    /\ waits' = <<>>
    /\ UNCHANGED <<loops, completions, recorded,
                   calls, call_history, queues, active_calls, config, limiter,
                   processing_task, cancel_requested, current, shutdown,
                   stop_pc, clock, history>>

\* the test of the while loop of _process_calls
RunningAlways(flag) == TRUE
Running(flag) == ~flag

\* one pass of the while loop of _process_calls, up to its next suspension:
\* the shutdown test, can_make_call, dequeue, and the head of
\* _process_single_call up to the await of the provider
process_calls ==
    /\ processing_task \in {"sleep", "run"}
    /\ ~cancel_requested
    /\ ret' = NoRet
    /\ loops' = IF Running(shutdown) THEN loops ELSE loops - 1
    /\ IF ~Running(shutdown)
       THEN /\ processing_task' = "done"
            /\ UNCHANGED <<calls, queues, active_calls, limiter, current,
                           arrival, behind, invocations, recorded>>
       ELSE LET rl == can_make_call(minute_calls, hour_calls, clock,
                                    calls_per_minute, calls_per_hour)
                d == dequeue(queues, active_calls, calls, max_concurrent_calls)
            IN  IF ~rl.ok
                THEN /\ processing_task' = "sleep"
                     /\ minute_calls' = rl.minute
                     /\ hour_calls' = rl.hour
                     /\ UNCHANGED <<calls, queues, active_calls, current,
                                    arrival, behind, invocations, recorded>>
                ELSE IF d.call = 0
                THEN /\ processing_task' = "sleep"
                     /\ minute_calls' = rl.minute
                     /\ hour_calls' = rl.hour
                     /\ calls' = d.calls
                     /\ queues' = d.queues
                     /\ active_calls' = d.active
                     /\ UNCHANGED <<current, arrival, behind, invocations,
                                    recorded>>
                ELSE /\ processing_task' = "provider"
                     /\ current' = d.call
                     /\ calls' = d.calls
                     /\ queues' = d.queues
                     /\ active_calls' = d.active
                     /\ minute_calls' = record_call(rl.minute, clock)
                     /\ hour_calls' = record_call(rl.hour, clock)
                     /\ recorded' = Append(recorded, clock)
                     /\ arrival' = Without(arrival, d.call)
                     /\ behind' = LeftBehind(queues, calls, d.call)
                     /\ invocations' = [invocations EXCEPT ![d.call] = @ + 1]
    /\ UNCHANGED <<completions, waits, call_history, config, cancel_requested,
                   shutdown, stop_pc, clock, failures, cancel_true>>

\* a pass of the while loop in which the loop's own code raises an
\* Exception, before it changed anything: the except clause of
\* _process_calls logs it and sleeps
LoopFault ==
    /\ processing_task \in {"sleep", "run"}
    /\ ~cancel_requested
    /\ ~shutdown
    /\ processing_task' = "sleep"
    /\ ret' = NoRet
    /\ UNCHANGED <<loops, completions, recorded, waits,
                   calls, call_history, queues, active_calls, config, limiter,
                   cancel_requested, current, shutdown, stop_pc, clock,
                   history>>

\* where the loop task is once _process_single_call has returned to it:
\* every outcome of the provider was handled inside, and the loop goes on
AfterCallRaising(outcome) == IF outcome = "ok" THEN "run" ELSE "done"
AfterCall(outcome) == "run"

\* the provider call returns or raises: the rest of _process_single_call
ProviderReturn(outcome) ==
    /\ processing_task = "provider"
    /\ ~cancel_requested
    /\ LET h == current
           cs == [calls EXCEPT ![h] = Handle(calls[h], outcome)]
           retried == outcome = "error" /\ cs[h].status = QUEUED
       IN  /\ calls' = cs
           /\ queues' = IF retried THEN enqueue(queues, cs, h) ELSE queues
           /\ arrival' = IF retried THEN Append(arrival, h) ELSE arrival
           /\ active_calls' = complete_call(active_calls, calls[h].id)
           /\ failures' = IF outcome = "error"
                          THEN [failures EXCEPT ![h] = @ + 1] ELSE failures
    /\ completions' = 0
    /\ processing_task' = AfterCall(outcome)
    /\ current' = 0
    /\ behind' = {}
    /\ ret' = NoRet
    /\ UNCHANGED <<loops, recorded, waits,
                   call_history, config, limiter, cancel_requested, shutdown,
                   stop_pc, clock, invocations, cancel_true>>

\* the cancellation requested by stop_processing reaches the task: at the
\* sleep of the loop, or at the provider await, where only the finally
\* clause of _process_single_call runs
LoopCancelled ==
    /\ cancel_requested
    /\ processing_task \in {"sleep", "provider"}
    /\ active_calls' = IF processing_task = "provider"
                       THEN complete_call(active_calls, calls[current].id)
                       ELSE active_calls
    /\ processing_task' = "done"
    /\ cancel_requested' = FALSE
    /\ current' = 0
    /\ behind' = {}
    /\ stop_pc' = IF stop_pc = "awaiting" THEN "wake" ELSE stop_pc
    /\ completions' = 0
    /\ loops' = loops - 1
    /\ ret' = NoRet
    /\ UNCHANGED <<recorded, waits,
                   calls, call_history, queues, config, limiter, shutdown,
                   clock, arrival, invocations, failures, cancel_true>>

Next ==
    \/ Tick
    \/ \E u \in Users, p \in SubmitPriorities :
           submit_call(u, Null, NoNumber, NoNumber, p)
    \/ \E u \in Users, n \in 0..MaxCalls : submit_batch(u, n)
    \/ StartProcessing
    \/ stop_processing
    \/ StopReturn
    \/ \E id \in DOMAIN call_history \cup {UnknownId} : cancel_call(id)
    \/ process_calls
    \/ \E o \in Outcomes : ProviderReturn(o)
    \/ LoopCancelled

Spec == Init /\ [][Next]_vars

\* --------------------------------------------- a provider that hangs
\* The handler with a provider whose invocations never return; the event
\* loop runs every coroutine that is ready, and time passes, up to the
\* timeout of the calls and beyond.
HangHorizon == DefaultTimeoutSeconds * 1000 + MaxClock

HangNext ==
    \/ Tick
    \/ \E h \in Handles : Elapse(calls[h].timeout_seconds * 1000, HangHorizon)
    \/ \E u \in Users, p \in SubmitPriorities :
           submit_call(u, Null, NoNumber, NoNumber, p)
    \/ \E u \in Users, n \in 0..MaxCalls : submit_batch(u, n)
    \/ StartProcessing
    \/ stop_processing
    \/ StopReturn
    \/ \E id \in DOMAIN call_history \cup {UnknownId} : cancel_call(id)
    \/ process_calls
    \/ LoopCancelled

HangSpec ==
    /\ Init
    /\ [][HangNext]_vars
    /\ WF_vars(Tick)
    /\ WF_vars(\E h \in Handles :
                  Elapse(calls[h].timeout_seconds * 1000, HangHorizon))
    /\ WF_vars(process_calls)
    /\ WF_vars(LoopCancelled)
    /\ WF_vars(StopReturn)

\* ------------------------------------------ a loop that is never stopped
\* The handler without stop_processing, with a provider whose every
\* invocation returns; the event loop runs the loop task whenever it is
\* ready, and time passes.
LiveNext ==
    \/ Tick
    \/ \E u \in Users, p \in SubmitPriorities :
           submit_call(u, Null, NoNumber, NoNumber, p)
    \/ \E u \in Users, n \in 0..MaxCalls : submit_batch(u, n)
    \/ StartProcessing
    \/ \E id \in DOMAIN call_history \cup {UnknownId} : cancel_call(id)
    \/ process_calls
    \/ \E o \in Outcomes : ProviderReturn(o)

LiveSpec ==
    /\ Init
    /\ [][LiveNext]_vars
    /\ WF_vars(Tick)
    /\ WF_vars(process_calls)
    /\ WF_vars(\E o \in Outcomes : ProviderReturn(o))

\* ------------------------------------------------- a loop that raises
\* The handler with callers that submit and cancel, a provider whose every
\* invocation returns or raises, and a loop whose own code may raise in
\* any pass; the event loop runs the loop task whenever it is ready.
FaultNext ==
    \/ \E u \in Users, p \in SubmitPriorities :
           submit_call(u, Null, NoNumber, NoNumber, p)
    \/ \E id \in DOMAIN call_history \cup {UnknownId} : cancel_call(id)
    \/ process_calls
    \/ LoopFault
    \/ \E o \in Outcomes : ProviderReturn(o)

FaultSpec ==
    /\ Init
    /\ [][FaultNext]_vars
    /\ WF_vars(process_calls)
    /\ WF_vars(\E o \in Outcomes : ProviderReturn(o))

\* ------------------------------------------------- callers that wait
\* The handler with callers that submit, cancel, query and wait, for ids
\* known or not, with timeouts of 0..MaxWait seconds; the clock moves by
\* the polling interval of wait_for_call.  CallerSpec has one caller of
\* wait_for_call at a time, BatchSpec one caller of wait_for_batch.
Ids == DOMAIN call_history \cup {UnknownId}
RECURSIVE Lists(_, _)
Lists(S, n) ==
    IF n = 0 THEN {<<>>}
    ELSE Lists(S, n - 1) \cup
         {Append(l, x) : l \in {m \in Lists(S, n - 1) : Len(m) = n - 1}, x \in S}

\* the provider these callers use answers the first prompt and fails on
\* the others, by raising or by its timeout condition
ProviderOutcomes(prompt) ==
    IF prompt = Prompts[1] THEN {"ok"} ELSE {"error", "timeout"}

AProviderReturn(outcome) ==
    /\ processing_task = "provider"
    /\ outcome \in ProviderOutcomes(calls[current].prompt)
    /\ ProviderReturn(outcome)

CallerNext ==
    \/ Elapse(PollMs, MaxPolls * PollMs)
    \/ \E u \in Users :
           submit_call(u, Null, NoNumber, NoNumber, "normal")
    \/ \E id \in Ids : cancel_call(id)
    \/ \E id \in Ids : GetCallStatus(id)
    \/ \E id \in Ids : GetCallResult(id)
    \/ \E id \in Ids, t \in 0..MaxWait : WaitForCall(id, t)
    \/ \E i \in 1..Len(waits) : WaitStep(i)
    \/ WaitReturn
    \/ process_calls
    \/ \E o \in Outcomes : AProviderReturn(o)

CallerSpec == Init /\ [][CallerNext]_vars

BatchNext ==
    \/ Elapse(PollMs, MaxPolls * PollMs)
    \/ \E u \in Users, n \in 1..MaxCalls : submit_batch(u, n)
    \/ \E id \in Ids : cancel_call(id)
    \/ \E ids \in Lists(Ids, MaxBatch), t \in 0..MaxWait : wait_for_batch(ids, t)
    \/ \E i \in 1..Len(waits) : WaitStep(i)
    \/ BatchReturn
    \/ process_calls
    \/ \E o \in Outcomes : AProviderReturn(o)

BatchSpec == Init /\ [][BatchNext]_vars

\* ------------------------------------------------ callers that query
\* The handler with callers that submit, cancel and ask for a status, a
\* result or statistics, of the last DefaultHours hours or of no hours,
\* for users known or not.
StatsNext ==
    \/ Tick
    \/ \E u \in Users :
           submit_call(u, Null, NoNumber, NoNumber, "normal")
    \/ \E id \in Ids : cancel_call(id)
    \/ \E id \in Ids : GetCallStatus(id)
    \/ \E id \in Ids : GetCallResult(id)
    \/ GetQueueStats
    \/ \E u \in Users \cup {0}, hours \in {0, DefaultHours} :
           GetUserCallStats(u, hours)
    \/ GetSystemStats
    \/ process_calls
    \/ \E o \in Outcomes : AProviderReturn(o)

StatsSpec == Init /\ [][StatsNext]_vars

\* ------------------------------------------------- _estimate_tokens alone
\* A handler that nothing was submitted to, whose _estimate_tokens is
\* called with a prompt and a response of 0..MaxChars characters each.
TokenInit ==
    /\ calls = <<>>
    /\ call_history = <<>>
    /\ queues = [p \in CallPriority |-> <<>>]
    /\ active_calls = {}
    /\ max_concurrent_calls = DefaultMaxConcurrent
    /\ minute_calls = <<>>
    /\ hour_calls = <<>>
    /\ calls_per_minute = DefaultCallsPerMinute
    /\ calls_per_hour = DefaultCallsPerHour
    /\ processing_task = "None"
    /\ cancel_requested = FALSE
    /\ current = 0
    /\ shutdown = FALSE
    /\ stop_pc = "idle"
    /\ clock = 0
    /\ \E prompt_chars, response_chars \in 0..MaxChars :
           ret = Returned("arguments", <<prompt_chars, response_chars>>, 0)
    /\ waits = <<>>
    /\ arrival = <<>>
    /\ behind = {}
    /\ invocations = <<>>
    /\ failures = <<>>
    /\ cancel_true = {}
    /\ recorded = <<>>
    /\ loops = 0
    /\ completions = 0

EstimateTokens ==
    /\ ret.op = "arguments"
    /\ ret' = Returned("_estimate_tokens", ret.arg,
                       estimate_tokens(ret.arg[1], ret.arg[2]))
    /\ UNCHANGED <<loops, completions, recorded, waits,
                   calls, call_history, queues, active_calls, config, limiter,
                   processing_task, cancel_requested, current, shutdown,
                   stop_pc, clock, history>>

TokenNext == EstimateTokens

TokenSpec == TokenInit /\ [][TokenNext]_vars

\* ------------------------------------------------- CallQueue under load
\* One CallQueue, built with a cap of 1..MaxCap, used by concurrent workers:
\* callers enqueue calls with ids of their own (all distinct), workers
\* dequeue, finish what they hold and release it, callers cancel.
HarnessId(h) == <<h, 0>>

QInit ==
    /\ calls = <<>>
    /\ call_history = <<>>
    /\ queues = [p \in CallPriority |-> <<>>]
    /\ active_calls = {}
    /\ max_concurrent_calls \in 1..MaxCap
    /\ minute_calls = <<>>
    /\ hour_calls = <<>>
    /\ calls_per_minute = DefaultCallsPerMinute
    /\ calls_per_hour = DefaultCallsPerHour
    /\ processing_task = "None"
    /\ cancel_requested = FALSE
    /\ current = 0
    /\ shutdown = FALSE
    /\ stop_pc = "idle"
    /\ clock = 0
    /\ ret = NoRet
    /\ waits = <<>>
    /\ arrival = <<>>
    /\ behind = {}
    /\ invocations = <<>>
    /\ failures = <<>>
    /\ cancel_true = {}
    /\ recorded = <<>>
    /\ loops = 0
    /\ completions = 0

QEnqueue(priority) ==
    /\ Len(calls) < MaxEnqueues
    /\ LET h == Len(calls) + 1
           cs == Append(calls,
                        LLMCall(HarnessId(h), PromptOf(h), openai_model,
                                openai_temperature, settings_max_tokens,
                                priority, 0, clock))
       IN  /\ calls' = cs
           /\ queues' = enqueue(queues, cs, h)
           /\ call_history' = Put(call_history, HarnessId(h), h)
           /\ arrival' = Append(arrival, h)
           /\ invocations' = Append(invocations, 0)
           /\ failures' = Append(failures, 0)
    /\ ret' = NoRet
    /\ UNCHANGED <<loops, completions, recorded, waits,
                   active_calls, config, limiter, processing_task,
                   cancel_requested, current, shutdown, stop_pc, clock, behind,
                   cancel_true>>

QDequeue ==
    /\ LET d == dequeue(queues, active_calls, calls, max_concurrent_calls)
       IN  /\ calls' = d.calls
           /\ queues' = d.queues
           /\ active_calls' = d.active
           /\ arrival' = IF d.call = 0 THEN arrival
                         ELSE Without(arrival, d.call)
           /\ ret' = Returned("dequeue", 0, d.call)
    /\ UNCHANGED <<loops, completions, recorded, waits,
                   call_history, config, limiter, processing_task,
                   cancel_requested, current, shutdown, stop_pc, clock, behind,
                   invocations, failures, cancel_true>>

\* a worker's provider call returned: the success path of
\* _process_single_call and its finally clause
QComplete(h) ==
    /\ calls[h].status = PROCESSING
    /\ calls' = [calls EXCEPT ![h] = OnSuccess(@)]
    /\ active_calls' = complete_call(active_calls, calls[h].id)
    /\ ret' = NoRet
    /\ UNCHANGED <<loops, completions, recorded, waits,
                   call_history, queues, config, limiter, processing_task,
                   cancel_requested, current, shutdown, stop_pc, clock,
                   history>>

QNext ==
    \/ \E p \in CallPriority : QEnqueue(p)
    \/ QDequeue
    \/ \E h \in Handles : QComplete(h)
    \/ \E id \in DOMAIN call_history \cup {UnknownId} : cancel_call(id)

QueueSpec == QInit /\ [][QNext]_vars

\* ---------------------------------------------------- RateLimiter alone
\* One RateLimiter built with small quotas; its callers check and record at
\* any time.  The clock visits the millisecond before, at and after every
\* multiple of the minute window.
TimeGrid ==
    {t \in {w * MinuteWindow + e : w \in 0..MaxWindows, e \in {-1, 0, 1}} :
        t >= 0}

RInit ==
    /\ calls = <<>>
    /\ call_history = <<>>
    /\ queues = [p \in CallPriority |-> <<>>]
    /\ active_calls = {}
    /\ max_concurrent_calls = DefaultMaxConcurrent
    /\ minute_calls = <<>>
    /\ hour_calls = <<>>
    /\ calls_per_minute \in 1..MaxRate
    /\ calls_per_hour \in 1..(MaxRate + 1)
    /\ processing_task = "None"
    /\ cancel_requested = FALSE
    /\ current = 0
    /\ shutdown = FALSE
    /\ stop_pc = "idle"
    /\ clock = 0
    /\ ret = NoRet
    /\ waits = <<>>
    /\ arrival = <<>>
    /\ behind = {}
    /\ invocations = <<>>
    /\ failures = <<>>
    /\ cancel_true = {}
    /\ recorded = <<>>
    /\ loops = 0
    /\ completions = 0

RElapse == \E t \in TimeGrid : Elapse(t - clock, MaxWindows * MinuteWindow + 1)

RCanMakeCall ==
    /\ LET rl == can_make_call(minute_calls, hour_calls, clock,
                               calls_per_minute, calls_per_hour)
       IN  /\ minute_calls' = rl.minute
           /\ hour_calls' = rl.hour
           /\ ret' = Returned("can_make_call", 0, rl.ok)
    /\ UNCHANGED <<loops, completions, recorded, waits,
                   calls, call_history, queues, active_calls, config,
                   processing_task, cancel_requested, current, shutdown,
                   stop_pc, clock, history>>

RRecordCall ==
    /\ Len(hour_calls) < MaxRecords
    /\ minute_calls' = record_call(minute_calls, clock)
    /\ hour_calls' = record_call(hour_calls, clock)
    /\ recorded' = Append(recorded, clock)
    /\ ret' = NoRet
    /\ UNCHANGED <<loops, completions,
                   waits, calls, call_history, queues, active_calls, config,
                   processing_task, cancel_requested, current, shutdown,
                   stop_pc, clock, history>>

RNext ==
    \/ RElapse
    \/ RCanMakeCall
    \/ RRecordCall

RateSpec == RInit /\ [][RNext]_vars

\* ------------------------------------------- the loop under small quotas
\* The handler with its RateLimiter set to the small quotas of RInit.  The
\* clock also visits the hour boundary; the provider raises only while
\* fewer than MaxRecords calls were dispatched.
ThrottleGrid == TimeGrid \cup {HourWindow + e : e \in {-1, 0, 1}}

TElapse == \E t \in ThrottleGrid : Elapse(t - clock, HourWindow + 1)

TProviderReturn(outcome) ==
    /\ outcome = "error" => Len(recorded) < MaxRecords
    /\ ProviderReturn(outcome)

ThrottleNext ==
    \/ TElapse
    \/ \E u \in Users :
           submit_call(u, Null, NoNumber, NoNumber, "normal")
    \/ process_calls
    \/ \E o \in Outcomes : TProviderReturn(o)

ThrottleSpec == RInit /\ [][ThrottleNext]_vars

\* ------------------------------------------ RateLimiter across the hour
\* The RateLimiter of RInit alone, its callers checking and recording at
\* any time, the clock visiting the minute boundaries and the hour boundary.
QuotaNext ==
    \/ TElapse
    \/ RCanMakeCall
    \/ RRecordCall

QuotaSpec == RInit /\ [][QuotaNext]_vars

\* ------------------------------------------------------------------ claims
InStatus(status) == {h \in Handles : calls[h].status = status}
Position(s, x) == CHOOSE i \in 1..Len(s) : s[i] = x
Dispatched(h) == h \in Pending /\ h \notin Pending'

WithinCap ==
    /\ Cardinality(active_calls) <= max_concurrent_calls
    /\ Cardinality(InStatus(PROCESSING)) <= max_concurrent_calls
DequeueAtCap ==
    (ret'.op = "dequeue"
        /\ Cardinality(active_calls) >= max_concurrent_calls)
    => (ret'.val = 0 /\ UNCHANGED <<queues, active_calls, calls>>)
\* C1: under every interleaving of enqueue, cancel_call, dequeue and the
\* release of a finished call, neither the number of calls in status
\* PROCESSING nor the size of the active set exceeds max_concurrent_calls,
\* and a dequeue made with the active set at the cap returns none and
\* changes neither the queues, the active set nor any call.
C1_ConcurrencyCap == []WithinCap /\ [][DequeueAtCap]_vars
C1_Witness ==
    /\ ret.op = "dequeue"
    /\ ret.val = 0
    /\ Pending # {}
    /\ Cardinality(active_calls) = max_concurrent_calls
    /\ Cardinality(InStatus(PROCESSING)) = max_concurrent_calls

HighestTierFirst ==
    \A h \in Handles :
        Dispatched(h) =>
            /\ h = Head(queues[calls[h].priority])
            /\ \A q \in Pending :
                   Rank(calls[q].priority) >= Rank(calls[h].priority)
\* C2: a call that leaves the queues is the head of its tier, and no call
\* of a higher tier is pending at that moment; so a CRITICAL call enqueued
\* after a pending NORMAL call is dequeued before it once a slot is free.
C2_PriorityOrder == [][HighestTierFirst]_vars
C2_Witness ==
    /\ ret.op = "dequeue"
    /\ ret.val # 0
    /\ calls[ret.val].priority = "critical"
    /\ Cardinality(active_calls) = max_concurrent_calls
    /\ \E q \in Pending :
           /\ calls[q].priority = "normal"
           /\ q < ret.val
           /\ \E n \in InStatus(COMPLETED) :
                  n < q /\ calls[n].priority = "normal"

FifoWithinTier ==
    \A h \in Handles :
        Dispatched(h) =>
            \A q \in Pending :
                calls[q].priority = calls[h].priority
                    => Position(arrival, h) <= Position(arrival, q)
\* C3: within one tier calls leave the queue in order of arrival, whether
\* they arrived by submit_call or by the re-enqueue of a retry.
C3_FifoWithinTier == [][FifoWithinTier]_vars
C3_Witness ==
    /\ processing_task = "provider"
    /\ calls[current].retry_count = 0
    /\ \E q \in behind : q < current /\ calls[q].retry_count > 0

\* C4: retry_count never exceeds max_retries, and the failure of an attempt
\* made with retry_count = max_retries leaves the call FAILED and out of
\* the queues.
C4_RetryBound ==
    \A h \in Handles :
        /\ calls[h].retry_count <= calls[h].max_retries
        /\ failures[h] <= calls[h].max_retries + 1
        /\ failures[h] = calls[h].max_retries + 1
               => calls[h].status = FAILED /\ h \notin Pending
C4_Witness ==
    \E h \in Handles :
        /\ failures[h] = calls[h].max_retries + 1
        /\ calls[h].status = FAILED
        /\ calls[h].retry_count = calls[h].max_retries

Idle(h) == ~(processing_task = "provider" /\ current = h)
\* C5: a call all of whose provider invocations failed is FAILED exactly
\* after max_retries + 1 invocations, with retry_count = max_retries; after
\* fewer failures it is back in its queue with one retry counted per failure.
C5_AlwaysFailing ==
    \A h \in Handles :
        /\ calls[h].status = FAILED
               => /\ invocations[h] = calls[h].max_retries + 1
                  /\ calls[h].retry_count = calls[h].max_retries
        /\ (Idle(h) /\ failures[h] = invocations[h]
                /\ failures[h] <= calls[h].max_retries)
               => /\ calls[h].status \in {QUEUED, CANCELLED}
                  /\ calls[h].retry_count = failures[h]
                  /\ failures[h] > 0 => h \in Pending
        /\ (Idle(h) /\ failures[h] = invocations[h]
                /\ failures[h] > calls[h].max_retries)
               => calls[h].status = FAILED
C5_Witness ==
    \E h \in Handles :
        /\ calls[h].status = FAILED
        /\ h \notin cancel_true
        /\ invocations[h] = calls[h].max_retries + 1
        /\ failures[h] = invocations[h]
        /\ calls[h].retry_count = calls[h].max_retries

Terminal == {COMPLETED, FAILED, TIMEOUT, CANCELLED}
CancelOnce ==
    ret'.op = "cancel_call" =>
        /\ (ret'.arg \in DOMAIN call_history
               /\ calls[call_history[ret'.arg]].status \in Terminal)
              => ret'.val = FALSE
        /\ ret'.val = TRUE => call_history[ret'.arg] \notin cancel_true
\* C6: cancel_call returns False for a call in a terminal state, and
\* returns True at most once per call id.
C6_CancelOnce == [][CancelOnce]_vars

CancelledStays ==
    \A h \in Handles :
        calls[h].status = CANCELLED
            => /\ calls'[h].status = CANCELLED
               /\ calls'[h].result = calls[h].result
\* C7: once a call is CANCELLED no step changes its status or sets its
\* result.
C7_CancelledTerminal == [][CancelledStays]_vars

FinalStays ==
    \A h \in Handles :
        calls[h].status \in {COMPLETED, FAILED, TIMEOUT}
            => calls'[h] = calls[h]
\* C8: once a call is COMPLETED, FAILED or TIMEOUT no step changes its
\* status, result, error or retry_count.
C8_FinalStates == [][FinalStays]_vars
C8_Witness ==
    /\ ret.op = "cancel_call"
    /\ ret.val = FALSE
    /\ ret.arg \in DOMAIN call_history
    /\ calls[call_history[ret.arg]].status \in {COMPLETED, FAILED, TIMEOUT}

\* C9: result is non-null exactly when status is COMPLETED.
C9_ResultIffCompleted ==
    \A h \in Handles :
        calls[h].result # Null <=> calls[h].status = COMPLETED
C9_Witness ==
    \E h \in Handles :
        /\ calls[h].status = COMPLETED
        /\ calls[h].result = ResultText(calls[h].prompt)
        /\ h \in cancel_true

\* C10: error is non-null exactly when status is FAILED or TIMEOUT.
C10_ErrorIffFailed ==
    \A h \in Handles :
        calls[h].error # Null <=> calls[h].status \in {FAILED, TIMEOUT}

Distinct(s) == \A i, j \in 1..Len(s) : i # j => s[i] # s[j]
\* C11: call identifiers are unique for the process lifetime: no two calls
\* ever built by submit carry the same id, and the ids one submit_batch
\* returns are pairwise distinct.
C11_UniqueIds ==
    /\ \A g, h \in Handles : g # h => calls[g].id # calls[h].id
    /\ ret.op = "submit_batch" => Distinct(ret.val)

NewCallQueued ==
    \A h \in (Len(calls) + 1)..Len(calls') :
        /\ calls'[h].status = QUEUED
        /\ get_call_status(call_history', calls', calls'[h].id)
               \in {QUEUED, PROCESSING}
CompletedWasInvoked ==
    \A h \in Handles : calls[h].status = COMPLETED => invocations[h] >= 1
\* C12: a call record is built with status QUEUED and get_call_status on
\* its id, evaluated in the state submit leaves, is QUEUED or PROCESSING;
\* in every reachable state a COMPLETED call has had the provider invoked
\* for it at least once.
C12_StatusAfterSubmit == []CompletedWasInvoked /\ [][NewCallQueued]_vars
C12_Witness ==
    /\ Len(calls) = 2
    /\ calls[1].status = COMPLETED
    /\ invocations[1] >= 1
    /\ calls[2].status = QUEUED
    /\ invocations[2] = 0
    /\ get_call_status(call_history, calls, calls[2].id) = QUEUED

\* the provider await of h ends in this step with the timeout condition
TimeoutEnds(h) ==
    /\ processing_task = "provider"
    /\ current = h
    /\ processing_task' = "run"
    /\ calls'[h].error = TimeoutMessage
    /\ calls[h].error # TimeoutMessage
TimeoutIsFinal ==
    \A h \in Handles :
        /\ TimeoutEnds(h) =>
               /\ calls'[h].status = TIMEOUT
               /\ calls'[h].retry_count = calls[h].retry_count
               /\ h \notin Pending'
        /\ calls[h].status = TIMEOUT =>
               /\ invocations'[h] = invocations[h]
               /\ h \notin Pending'
\* C13: when a provider attempt ends with the timeout condition the call
\* gets status TIMEOUT with the timeout error recorded, its retry_count is
\* unchanged and it is not re-enqueued; a call in status TIMEOUT is never
\* put back in a queue and the provider is never invoked for it again.
C13_TimeoutNotRetried == [][TimeoutIsFinal]_vars
C13_Witness ==
    \E h \in Handles :
        /\ calls[h].status = TIMEOUT
        /\ calls[h].error = TimeoutMessage
        /\ calls[h].retry_count > 0
        /\ calls[h].retry_count < calls[h].max_retries
        /\ h \notin Pending
        /\ processing_task = "provider"
        /\ current # h

\* the provider await of h is pending and the clock can still pass the
\* whole timeout_seconds of h
InFlight(h) ==
    /\ h \in Handles
    /\ processing_task = "provider"
    /\ current = h
    /\ clock + calls[h].timeout_seconds * 1000 <= HangHorizon
\* C14: a dispatched call whose provider invocation never returns
\* eventually gets status TIMEOUT: its timeout_seconds is enforced on the
\* provider invocation.
C14_TimeoutEnforced ==
    \A h \in 1..MaxCalls :
        InFlight(h) ~> (h \in Handles /\ calls[h].status = TIMEOUT)

\* how many timestamps of a log are at most / less than a window old
NotOlderThan(log, now, window) ==
    Cardinality({i \in 1..Len(log) : now - log[i] <= window})
YoungerThan(log, now, window) ==
    Cardinality({i \in 1..Len(log) : now - log[i] < window})
HourPermits == YoungerThan(hour_calls, clock, HourWindow) < calls_per_hour
FalseUntilOlder ==
    ret'.op = "can_make_call" =>
        /\ NotOlderThan(minute_calls, clock, MinuteWindow) >= calls_per_minute
               => ret'.val = FALSE
        /\ (NotOlderThan(minute_calls, clock, MinuteWindow) < calls_per_minute
               /\ HourPermits) => ret'.val = TRUE
\* C15: once calls_per_minute recorded timestamps lie within one 60-second
\* window, every can_make_call returns false until the oldest of them is
\* more than 60 seconds old, and returns true once fewer than
\* calls_per_minute of them are at most 60 seconds old (hour quota
\* permitting).
C15_FalseUntilOlder == [][FalseUntilOlder]_vars

FalseWhileInWindow ==
    ret'.op = "can_make_call" =>
        /\ YoungerThan(minute_calls, clock, MinuteWindow) >= calls_per_minute
               => ret'.val = FALSE
        /\ (YoungerThan(minute_calls, clock, MinuteWindow) < calls_per_minute
               /\ HourPermits) => ret'.val = TRUE
\* C15 (amended): once calls_per_minute recorded timestamps lie within one
\* 60-second window, every can_make_call returns false until the oldest of
\* them is at least 60 seconds old, and returns true once fewer than
\* calls_per_minute of them are less than 60 seconds old (hour quota
\* permitting).
C15_FalseWhileInWindow == [][FalseWhileInWindow]_vars
C15_Witness ==
    /\ ret.op = "can_make_call"
    /\ ret.val = TRUE
    /\ Len(hour_calls) >= calls_per_minute
    /\ \A i \in 1..Len(hour_calls) : clock - hour_calls[i] = MinuteWindow
    /\ minute_calls = <<>>

\* the records made less than a window before the i-th record, itself included
InWindowOf(i, window) ==
    Cardinality({j \in 1..i : recorded[i] - recorded[j] < window})
WithinQuota ==
    \A i \in 1..Len(recorded) :
        /\ InWindowOf(i, MinuteWindow) <= calls_per_minute
        /\ InWindowOf(i, HourWindow) <= calls_per_hour
CheckedDispatch ==
    \A h \in Handles :
        Dispatched(h) =>
            /\ can_make_call(minute_calls, hour_calls, clock,
                             calls_per_minute, calls_per_hour).ok
            /\ recorded' = Append(recorded, clock)
            /\ \A g \in Handles \ {h} : ~Dispatched(g)
\* C16: the loop takes a call out of the queues only in a step in which
\* can_make_call returned true, and the matching record_call is made in
\* the same step with no other dispatch in between, so the recorded calls
\* inside any 60-second window never exceed calls_per_minute and inside
\* any 3600-second window never exceed calls_per_hour.
C16_Throughput == []WithinQuota /\ [][CheckedDispatch]_vars
C16_Witness ==
    /\ Len(recorded) >= 2
    /\ InWindowOf(Len(recorded), MinuteWindow) = calls_per_minute
    /\ clock - recorded[Len(recorded)] < MinuteWindow
    /\ Pending # {}
    /\ processing_task = "sleep"
    /\ ~can_make_call(minute_calls, hour_calls, clock,
                      calls_per_minute, calls_per_hour).ok

\* C17: with the loop started and never stopped, every provider invocation
\* returning and finitely many submits, every submitted call eventually
\* reaches one of COMPLETED, FAILED, TIMEOUT, CANCELLED.
C17_EveryCallSettles ==
    \A h \in 1..MaxCalls :
        (h \in Handles) ~> (h \in Handles /\ calls[h].status \in Terminal)
C17_Witness ==
    /\ Len(calls) = MaxCalls
    /\ Pending = {}
    /\ \A h \in Handles : calls[h].status \in Terminal
    /\ \E h \in Handles :
           calls[h].status = FAILED /\ failures[h] = DefaultMaxRetries + 1
    /\ \E h \in Handles : calls[h].status = COMPLETED /\ failures[h] > 0

\* the handler's collections and logs
Quiet ==
    UNCHANGED <<calls, call_history, queues, active_calls, minute_calls,
                hour_calls, recorded>>
\* the i-th wait_for_call coroutine runs in this step
Polls(i) ==
    /\ i \in 1..Len(waits)
    /\ Len(waits') = Len(waits)
    /\ waits'[i] # waits[i]
Deadline(w) == w.start + w.timeout_seconds * 1000
WaitContract ==
    \A i \in 1..Len(waits) :
        Polls(i) =>
            LET w == waits'[i]
                known == w.id \in DOMAIN call_history
                call == calls[call_history[w.id]]
                late == clock >= Deadline(w)
            IN  /\ Quiet
                /\ UNCHANGED <<processing_task, current, shutdown, clock>>
                /\ w.pc = "sleep" => w.wake <= Deadline(w)
                /\ w.pc = "done" =>
                       /\ clock <= Deadline(w)
                       /\ ~w.result.exc
                       /\ w.result.val # Null =>
                              /\ ~late
                              /\ known
                              /\ call.status = COMPLETED
                              /\ w.result.val = call.result
                /\ late \/ ~known => w.pc = "done" /\ w.result.val = Null
                /\ (~late /\ known) =>
                       /\ call.status = COMPLETED =>
                              w.pc = "done" /\ w.result.val = call.result
                       /\ call.status \in {FAILED, TIMEOUT, CANCELLED} =>
                              w.pc = "done" /\ w.result.val = Null
WaitReturnsResult ==
    (ret'.op = "wait_for_call" /\ waits # <<>>) =>
        /\ ret'.val = waits[1].result.val
        /\ Quiet
\* C18: every pass of wait_for_call leaves the handler unchanged and never
\* sleeps past start + timeout_seconds, and the coroutine returns no later
\* than that; it returns a value other than none only when, inside the
\* timeout, it saw the call COMPLETED, and the value is that call's result;
\* it returns none when it saw FAILED, TIMEOUT or CANCELLED, when the id is
\* unknown, or when the timeout had elapsed.
C18_WaitForCall == [][WaitContract /\ WaitReturnsResult]_vars
C18_Witness ==
    /\ ret.op = "wait_for_call"
    /\ ret.arg \in DOMAIN call_history
    /\ ret.val # Null
    /\ ret.val = calls[call_history[ret.arg]].result
    /\ clock > 0
    /\ \E h \in Handles : calls[h].status \in {QUEUED, PROCESSING}

Unknown(call_id) == call_id \notin DOMAIN call_history
UnknownIsNone ==
    /\ (ret'.op \in {"get_call_status", "get_call_result", "wait_for_call"}
           /\ Unknown(ret'.arg)) => (ret'.val = Null /\ Quiet)
    /\ (ret'.op = "cancel_call" /\ Unknown(ret'.arg)) =>
           (ret'.val = FALSE /\ Quiet)
    /\ \A i \in 1..Len(waits) :
           (Polls(i) /\ Unknown(waits[i].id)) =>
               /\ waits'[i].pc = "done"
               /\ ~waits'[i].result.exc
               /\ waits'[i].result.val = Null
               /\ Quiet
\* C19: for an id that submit never returned, get_call_status and
\* get_call_result return none, wait_for_call returns none without raising
\* and cancel_call returns false, and the calls, the call history, the
\* queues, the active set and the rate-limiter logs are left unchanged.
C19_UnknownId == [][UnknownIsNone]_vars
C19_Witness ==
    /\ ret.op = "get_call_status"
    /\ Unknown(ret.arg)
    /\ ret.val = Null
    /\ call_history # <<>>
    /\ active_calls # {}
    /\ Pending # {}

\* the objects submit has built under an id
Named(call_id) == {h \in Handles : calls[h].id = call_id}
ItemContract ==
    \A i \in 1..Len(waits) :
        (Polls(i) /\ waits'[i].pc = "done") =>
            LET w == waits'[i]
                v == NoneIfException(w.result)
            IN  /\ v # Null =>
                       \E h \in Named(w.id) :
                           calls[h].status = COMPLETED /\ v = calls[h].result
                /\ clock < Deadline(w) =>
                       \A h \in Named(w.id) :
                           calls[h].status = COMPLETED => v = calls[h].result
BatchContract ==
    (ret'.op = "wait_for_batch" /\ waits # <<>>) =>
        /\ Len(ret'.val) = Len(ret'.arg)
        /\ \A i \in 1..Len(waits) :
               /\ ret'.arg[i] = waits[i].id
               /\ ret'.val[i] = NoneIfException(waits[i].result)
\* C20: wait_for_batch returns a list as long as call_ids whose position i
\* is what the wait on call_ids[i] produced: a text only if a call
\* submitted under call_ids[i] was COMPLETED with that result, and the
\* result of every call submitted under call_ids[i] that the wait saw
\* COMPLETED inside the timeout, whatever became of the other calls.
C20_BatchAligned == [][ItemContract /\ BatchContract]_vars


\* a step that built one new call: the call is the last of its tier's
\* list, it is QUEUED, and call_history gives it for its id
SubmittedAtTail ==
    Len(calls') = Len(calls) + 1 =>
        LET h == Len(calls')
            tier == queues'[calls'[h].priority]
        IN  /\ tier = Append(queues[calls'[h].priority], h)
            /\ calls'[h].status = QUEUED
            /\ calls'[h].id \in DOMAIN call_history'
            /\ call_history'[calls'[h].id] = h

\* whatever the loop, the limiter and the queues are at, a caller that runs
\* can submit
SubmitNeverWaits ==
    ~OnCpu /\ Len(calls) < MaxCalls =>
        ENABLED (\E u \in Users :
                    submit_call(u, Null, NoNumber, NoNumber, "normal"))

\* C21: submit_call completes in every state, whatever the loop, the rate
\* limiter and the queues are at, and leaves the new call at the tail of
\* its tier's queue, QUEUED, and in call_history under the returned id
C21_SubmitNeverWaits == []SubmitNeverWaits /\ [][SubmittedAtTail]_vars
C21_Witness ==
    /\ processing_task = "provider"
    /\ ~can_make_call(minute_calls, hour_calls, clock,
                      calls_per_minute, calls_per_hour).ok
    /\ Len(calls) > 1
    /\ LET h == Len(calls)
           tier == queues[calls[h].priority]
       IN  /\ calls[h].created_at > recorded[Len(recorded)]
           /\ calls[h].status = QUEUED
           /\ tier # <<>> /\ tier[Len(tier)] = h
           /\ call_history[calls[h].id] = h

\* a task is created only when no _process_calls task is live
CreatedWhenNoneLive == loops' > loops => loops = 0

\* the task the handler refers to is the only live one
OneLoop ==
    /\ loops <= 1
    /\ loops = 1 <=> processing_task \in {"sleep", "provider", "run"}

\* C22: over any sequence of start_processing, submit and stop_processing
\* at most one scheduling loop task is live, and start_processing with a
\* live loop creates none
C22_OneLoop == []OneLoop /\ [][CreatedWhenNoneLive]_vars
C22_Witness ==
    /\ Len(calls) = 2
    /\ ~shutdown
    /\ processing_task = "provider"
    /\ loops = 1

\* a step in which stop_processing returns: after its await, or at once
\* when there was no task to await
StopReturns ==
    \/ stop_pc = "wake" /\ stop_pc' = "idle"
    \/ stop_pc = "idle" /\ stop_pc' = "idle" /\ ~shutdown /\ shutdown'

NoLoopAtReturn == StopReturns => loops' = 0

\* C23: in the state in which stop_processing returns no loop task is live
C23_NoLoopAtReturn == [][NoLoopAtReturn]_vars

\* when stop_processing returns, the loop is over, or it is a task created
\* since, which has not run yet
StoppedAtReturn ==
    StopReturns => loops' = 0 \/ processing_task' = "sleep"

\* once stop_processing was called nothing is dequeued or dispatched
NoDispatchOnceStopped ==
    shutdown =>
        /\ \A h \in Handles : ~Dispatched(h)
        /\ processing_task' # "provider" \/ processing_task = "provider"
        /\ recorded' = recorded

\* C23 as amended: when stop_processing returns, the loop task it awaited
\* is over and a live one is a task created since, which has not run; no
\* dequeue or dispatch step occurs once stop_processing was called
C23_LoopStopped == [][StoppedAtReturn /\ NoDispatchOnceStopped]_vars
C23_Witness ==
    /\ shutdown
    /\ stop_pc = "idle"
    /\ processing_task = "done"
    /\ Pending # {}
    /\ \E h \in Handles : calls[h].status = PROCESSING

ReadOperations ==
    {"get_user_call_stats", "get_system_stats", "get_queue_stats",
     "get_call_status", "get_call_result"}

ReadOnly == ret'.op \in ReadOperations => Quiet

\* C24: get_user_call_stats, get_system_stats, get_queue_stats,
\* get_call_status and get_call_result leave the queues, the active set,
\* both limiter logs, call_history and every call record as they were
C24_ReadOnly == [][ReadOnly]_vars
C24_Witness ==
    /\ ret.op = "get_system_stats"
    /\ ret.val.queue_stats.active_calls = 1
    /\ ret.val.queue_stats.total_queued = 1
    /\ ret.val.recent_hour_calls > 0
    /\ minute_calls # <<>>

EndOfDispatch == processing_task = "provider" /\ processing_task' # "provider"

\* the complete_call of the finally clause is the only one for the id since
\* its dequeue, and leaves the id out of the active set
CompletedOnce ==
    EndOfDispatch =>
        /\ completions = 0
        /\ calls[current].id \notin active_calls'

\* C26: for every dispatch of a call, complete_call for its id runs exactly
\* once, on every exit path and for all interleavings with cancel_call, and
\* when the dispatch ends the id is not in the active set
C26_CompletedOnce == [][CompletedOnce]_vars

\* two calls are waiting and nothing keeps the loop from dispatching them
TwoAdmissible ==
    /\ Cardinality(Pending) >= 2
    /\ max_concurrent_calls >= 2
    /\ can_make_call(minute_calls, hour_calls, clock,
                     calls_per_minute, calls_per_hour).ok

\* two or more calls are PROCESSING, their provider invocations in progress
TwoInFlight == Cardinality(InStatus(PROCESSING)) >= 2

\* C27: with a cap of 2 or more, two calls queued and the limiter
\* permitting, the loop gets two or more calls to be PROCESSING at once,
\* their provider invocations in progress
C27_ConcurrentDispatch == TwoAdmissible ~> TwoInFlight

\* a dispatch ends in a failure or a timeout: it becomes the state of the
\* call, and the loop task runs on
FailureKept ==
    EndOfDispatch /\ calls'[current].status # COMPLETED =>
        /\ calls'[current].status \in {FAILED, TIMEOUT, QUEUED}
        /\ calls'[current].error # Null
        /\ processing_task' = "run"
        /\ loops' = loops

\* the loop that the first submit started is running
LoopAlive ==
    calls # <<>> => loops = 1 /\ processing_task \in {"sleep", "provider", "run"}

\* C28: a failure or timeout of a provider invocation becomes the state of
\* its call (FAILED, TIMEOUT or requeued) and leaves the loop running, as
\* does an exception in the loop's own code, and the loop goes on to
\* dequeue every queued call
C28_LoopSurvives ==
    /\ []LoopAlive
    /\ [][FailureKept]_vars
    /\ \A h \in 1..MaxCalls : (h \in Pending) ~> (h \notin Pending)
C28_Witness ==
    /\ processing_task = "provider"
    /\ invocations[current] = 1
    /\ \E h \in Handles :
           /\ h # current
           /\ calls[h].status \in {FAILED, TIMEOUT}
           /\ recorded[Len(recorded)] >= calls[h].created_at

\* the record of a call that has left QUEUED is written only by the steps
\* of the task that executes it: its dequeue and the end of its dispatch
SingleWriter ==
    \A h \in Handles :
        calls[h].status # QUEUED /\ calls'[h] # calls[h] =>
            \/ Dispatched(h)
            \/ EndOfDispatch /\ current = h

\* C29: once a call has left QUEUED, its status, result, error, retry_count
\* and metrics are written only by the task executing it, for all
\* interleavings of the loop with submit, cancel_call and the queries
C29_SingleWriter == [][SingleWriter]_vars

\* every call a submit built is in call_history under its id, and there
\* are as many entries as calls
HistoryKeepsAll ==
    /\ \A h \in Handles :
           /\ calls[h].id \in DOMAIN call_history
           /\ call_history[calls[h].id] = h
    /\ Cardinality(DOMAIN call_history) = Len(calls)

\* no step removes an entry of call_history or stores another record
\* under an id that has one
HistoryOnlyGrows ==
    \A id \in DOMAIN call_history :
        id \in DOMAIN call_history' /\ call_history'[id] = call_history[id]

\* C30: call_history is append-only: every record a submit created stays
\* under the id that submit returned, no entry is removed or replaced, and
\* the size of the history is the number of submits
C30_AppendOnly == []HistoryKeepsAll /\ [][HistoryOnlyGrows]_vars

\* the end of a dispatch that requeues its call: the call goes to the end
\* of the list of its own tier, QUEUED, with one more retry counted
RetryAtTail ==
    \A h \in Handles :
        EndOfDispatch /\ current = h /\ calls'[h].status = QUEUED =>
            /\ calls'[h].priority = calls[h].priority
            /\ calls'[h].retry_count = calls[h].retry_count + 1
            /\ queues' = [queues EXCEPT ![calls[h].priority] = Append(@, h)]

\* a retried call is dequeued only when no call that was pending in its
\* tier at its re-enqueue is still pending
RetriedWaitsItsTurn ==
    \A h \in Handles :
        Dispatched(h) /\ calls[h].retry_count > 0 =>
            \A q \in Pending \ {h} :
                calls[q].priority = calls[h].priority
                    => Position(arrival, h) < Position(arrival, q)

\* C31: a retried call goes to the tail of its own tier, QUEUED, its
\* retry_count one higher and its priority as it was, and every call that
\* was pending in that tier at the re-enqueue is dequeued before it
C31_RetryAtTail == [][RetryAtTail /\ RetriedWaitsItsTurn]_vars
C31_Witness ==
    \E h, q \in Handles :
        /\ calls[h].retry_count = 1
        /\ calls[h].status = QUEUED
        /\ calls[q].retry_count = 0
        /\ queues[calls[h].priority] = <<q, h>>

\* every timestamp of a log is less than a window old
AllInWindow(log, now, window) ==
    \A i \in 1..Len(log) : now - log[i] < window

\* can_make_call answers by the timestamps that are still in their window,
\* and leaves exactly those in the logs
CanMakeCallIff ==
    ret'.op = "can_make_call" =>
        LET minute == YoungerThan(minute_calls, clock, MinuteWindow)
            hour == YoungerThan(hour_calls, clock, HourWindow)
        IN  /\ ret'.val = (minute < calls_per_minute /\ hour < calls_per_hour)
            /\ AllInWindow(minute_calls', clock, MinuteWindow)
            /\ AllInWindow(hour_calls', clock, HourWindow)
            /\ Len(minute_calls') = minute
            /\ Len(hour_calls') = hour

\* C32: can_make_call returns true if and only if, the timestamps that
\* have left their window discarded, the minute log holds fewer than
\* calls_per_minute entries and the hour log fewer than calls_per_hour;
\* it returns false on a full hour log even when the minute log is empty,
\* and leaves no entry outside its window in either log
C32_CanMakeCallIff == [][CanMakeCallIff]_vars
C32_Witness ==
    /\ ret.op = "can_make_call"
    /\ ret.val = FALSE
    /\ minute_calls = <<>>
    /\ Len(hour_calls) = calls_per_hour
    /\ Len(recorded) > Len(hour_calls)

\* a step that starts a provider invocation appends one timestamp, the time
\* of the step, to each log, and no other step appends any
RecordedWithInvocation ==
    /\ \A h \in Handles :
           invocations'[h] # invocations[h] =>
               /\ invocations'[h] = invocations[h] + 1
               /\ minute_calls' =
                      Append(Prune(minute_calls, clock, MinuteWindow), clock)
               /\ hour_calls' =
                      Append(Prune(hour_calls, clock, HourWindow), clock)
    /\ Len(hour_calls') > Len(hour_calls) \/ Len(minute_calls') > Len(minute_calls)
           => \E h \in Handles : invocations'[h] = invocations[h] + 1

\* as many timestamps were recorded as provider invocations were started;
\* until the first minute is over, every one of them is in both logs
RecordedAll ==
    /\ Len(recorded) = Sum(invocations, Handles)
    /\ clock < MinuteWindow =>
           /\ Len(minute_calls) = Sum(invocations, Handles)
           /\ Len(hour_calls) = Sum(invocations, Handles)

\* C33: every provider invocation, each retry included, is preceded by
\* exactly one record_call, so the rate limiter has recorded as many
\* timestamps as provider invocations were started
C33_RecordPerInvocation == []RecordedAll /\ [][RecordedWithInvocation]_vars
C33_Witness ==
    /\ processing_task = "provider"
    /\ invocations[current] = 2
    /\ calls[current].retry_count = 1
    /\ Len(hour_calls) = Sum(invocations, Handles)
    /\ Len(hour_calls) > Len(calls)

\* the shutdown flag, once set, stays set
ShutdownLatched == shutdown => shutdown'

\* with the flag set no call becomes PROCESSING
NoAdmissionOnceStopped ==
    shutdown =>
        \A h \in 1..Len(calls') :
            calls'[h].status = PROCESSING =>
                h \in Handles /\ calls[h].status = PROCESSING

\* with the flag set, a loop task that runs ends, and dequeues nothing
LateLoopExits ==
    shutdown /\ processing_task = "sleep" /\ processing_task' # "sleep" =>
        /\ processing_task' = "done"
        /\ queues' = queues
        /\ active_calls' = active_calls

CancelHits == ret'.op = "cancel_call" /\ ret'.val = TRUE

\* a release of an id that is not in the active set changes neither the
\* active set nor the queues, and a release on behalf of one call does not
\* take the slot of another call that is in flight
ReleaseKeepsOthers ==
    /\ CancelHits /\ ret'.arg \notin active_calls =>
           active_calls' = active_calls /\ queues' = queues
    /\ EndOfDispatch /\ calls[current].id \notin active_calls =>
           active_calls' = active_calls
    /\ (/\ CancelHits
        /\ processing_task = "provider"
        /\ call_history[ret'.arg] # current
        /\ calls[current].id \in active_calls)
           => calls[current].id \in active_calls'

\* C35: complete_call for an id that is not in the active set (a second
\* release after cancel_call, or an id never dispatched) leaves the active
\* set and the queues as they were, so a release never frees the slot of
\* another call and the active set keeps every other call in flight
C35_IdempotentRelease == [][ReleaseKeepsOthers]_vars

\* the places of a call in the lists of the tiers
Places(h) ==
    {<<p, i>> \in CallPriority \X (1..Len(calls)) :
        i <= Len(queues[p]) /\ queues[p][i] = h}

\* a call is in the lists at most once, and only in that of its priority
QueuedOnce ==
    /\ \A p \in CallPriority : Len(queues[p]) <= Len(calls)
    /\ \A h \in Handles :
           /\ Cardinality(Places(h)) <= 1
           /\ \A pl \in Places(h) : pl[1] = calls[h].priority

\* C36: in every reachable state each call record is at most once in the
\* four tier queues, and only in the queue of its own priority
C36_QueuedOnce == []QueuedOnce
C36_Witness ==
    \E h, q \in Pending :
        /\ calls[h].retry_count > 0
        /\ calls[h].status = QUEUED
        /\ cancel_true = {h, q}
        /\ calls[q].status = CANCELLED
        /\ calls[q].priority # calls[h].priority

\* the call the active set holds is the one the loop is dispatching: it is
\* PROCESSING and in no list
ActiveIsProcessing ==
    active_calls # {} =>
        /\ processing_task = "provider"
        /\ active_calls = {calls[current].id}
        /\ calls[current].status = PROCESSING
        /\ current \notin Pending

\* C37: in every state another task can observe, every id of the active set
\* is that of a call which is PROCESSING and in no tier queue; a cancelled or
\* requeued call keeps no slot
C37_ActiveIsProcessing == []ActiveIsProcessing
C37_Witness ==
    \E h, q \in Handles :
        /\ processing_task = "provider"
        /\ current = h
        /\ active_calls = {calls[h].id}
        /\ calls[q].id # calls[h].id
        /\ calls[q].retry_count > 0
        /\ calls[q].status = QUEUED
        /\ q \in Pending


\* ------------------------------------------------- the parameters of a call
\* what the callers of this specification supply: nothing, zero, or a value
\* (temperatures in tenths)
SuppliedModels == {Null, "gpt-3.5-turbo"}
SuppliedTemperatures == {NoNumber, 0, 2}
SuppliedMaxTokens == {NoNumber, 0, 100}

ParamNext ==
    \/ \E m \in SuppliedModels, t \in SuppliedTemperatures,
          k \in SuppliedMaxTokens : submit_call(1, m, t, k, "normal")
    \/ \E id \in DOMAIN call_history : cancel_call(id)
    \/ process_calls
    \/ \E outcome \in Outcomes : ProviderReturn(outcome)

ParamSpec == Init /\ [][ParamNext]_vars

\* the three fields of the call a submit has created
Created == calls'[Len(calls')]
Kept(supplied, none, default, stored) ==
    stored = IF supplied = none THEN default ELSE supplied

SuppliedIsKept ==
    \A m \in SuppliedModels, t \in SuppliedTemperatures,
       k \in SuppliedMaxTokens :
        submit_call(1, m, t, k, "normal") =>
            /\ Kept(m, Null, openai_model, Created.model)
            /\ Kept(t, NoNumber, openai_temperature, Created.temperature)
            /\ Kept(k, NoNumber, settings_max_tokens, Created.max_tokens)

ParametersStay ==
    \A h \in Handles :
        /\ calls'[h].model = calls[h].model
        /\ calls'[h].temperature = calls[h].temperature
        /\ calls'[h].max_tokens = calls[h].max_tokens

\* C38: a submit that supplies a model, a temperature or max_tokens, zero
\* included, creates a call that holds exactly the supplied value; the
\* configured default is used only for a parameter left out; the three
\* fields never change afterwards
C38_SuppliedIsKept == [][SuppliedIsKept /\ ParametersStay]_vars
====
